---- MODULE Spec2Model ----
(***************************************************************************)
(* Model of baumeva: the BasePopulation container                          *)
(* (baumeva/ga/populations/base_population.py) and the VEGA driver         *)
(* (baumeva/vega.py).                                                      *)
(*                                                                         *)
(* Two specifications share the module:                                    *)
(*   SpecPop  - one BasePopulation instance under arbitrary sequences of   *)
(*              sort_by_dict, add_dict, reset_idx_individ and              *)
(*              get_empty_individ calls;                                   *)
(*   SpecInst - several BasePopulation instances, constructed and sorted   *)
(*              in any order;                                              *)
(*   Spec     - one call of VEGA.optimize, statement by statement;         *)
(*   FairSpec - Spec with the progress of the running call.                *)
(***************************************************************************)
EXTENDS Integers, Sequences, FiniteSets, Bags, TLC

(***************************************************************************)
(* Bounds.                                                                 *)
(***************************************************************************)
\* longest population explored by SpecPop
MaxLen == 3
\* largest score / idx_individ value handed to add_dict
MaxVal == 1
\* largest num_generations
MaxGen == 5
\* largest early_stop
MaxStop == 3
\* largest num_individ
MaxIndivid == 2
\* largest score a fitness pass produces
MaxScore == 1
\* longest output of the objective function / longest conditions list
MaxOut == 2
\* population instances besides the one whose list is followed
NumOthers == 1
\* longest list of the followed population while several instances are explored
MaxHeld == 1

VARIABLES
    \* ---- BasePopulation instance ----
    pop,             \* the list contents: a sequence of individuals (dicts)
    inst_is_sorted,  \* the instance attribute is_sorted: "absent" until assigned
    last_call,       \* the last method called, its arguments and outcome
    before,          \* the list contents when last_call was entered
    before_sorted,   \* is_sorted when last_call was entered
    arg,             \* the keyword dict the last add_dict was called with
    ret,             \* the dict the last get_empty_individ returned
    others,          \* instance attribute is_sorted of the other population
                     \* instances: "none" while the instance does not exist
    score_sorted,    \* the instances a sort_by_dict by 'score' has completed on
    \* ---- one call of VEGA.optimize ----
    cfg,             \* the attributes VEGA.__init__ stored
    pc,              \* the statement of optimize about to run
    num_objectives,  \* local num_objectives (0 before it is assigned)
    ga_data,         \* the MultiGaData object: its scalar run state
    ga_population,   \* ga_data.population: "None" or "population"
    population,      \* the local population object: num_individ and length
    pools,           \* sizes of the parent and the child pool
    cur_best,        \* best score of the population after the last fitness pass
    it,              \* next value of the iterator range(1, num_generations)
    init_log,        \* stages run before the main loop, with their target
    step_log,        \* stages run so far in the current loop iteration
    failed           \* the statement that raised, if one did, and the logs then

popvars == <<pop, inst_is_sorted, last_call, before, before_sorted, arg, ret,
            others, score_sorted>>

vegavars == <<cfg, pc, num_objectives, ga_data, ga_population, population, pools,
              cur_best, it, init_log, step_log, failed>>

vars == <<popvars, vegavars>>

\* a record of one method call on the population
Call(op, key, reverse, raised, ret_none, ret_keys) ==
    [op |-> op, key |-> key, reverse |-> reverse, raised |-> raised,
     ret_none |-> ret_none, ret_keys |-> ret_keys]

\* no dict: where a call takes or returns none
NoDict == [f \in {} |-> 0]

\* a BasePopulation instance right after construction: an empty list, no
\* instance attribute
PopFresh ==
    /\ pop = <<>>
    /\ inst_is_sorted = "absent"
    /\ last_call = Call("new", "-", FALSE, FALSE, TRUE, {})
    /\ before = <<>>
    /\ before_sorted = FALSE
    /\ arg = NoDict
    /\ ret = NoDict
    /\ others = [i \in 1..NumOthers |-> "none"]
    /\ score_sorted = {}

(***************************************************************************)
(*                         VEGA (baumeva/vega.py)                          *)
(***************************************************************************)
\* None where the program holds an int
None == -1

Tags == {"optimize", "<="}

RECURSIVE Count(_, _)
\* list.count
Count(s, x) ==
    IF s = <<>> THEN 0
    ELSE (IF s[1] = x THEN 1 ELSE 0) + Count(SubSeq(s, 2, Len(s)), x)

\* conditions lists: at least one objective to optimize
CondLists ==
    { c \in UNION { [1..n -> Tags] : n \in 1..MaxOut } : Count(c, "optimize") >= 1 }

\* The shapes of objective function the interface documents: one argument
\* (gens) or two (input_data, gens); a scalar or a sequence of out_len
\* numbers; used without a conditions list or with one tag per output.
ShapesNoConditions ==
    { [arity |-> a, returns_seq |-> r, out_len |-> n,
       has_conditions |-> FALSE, conditions |-> <<>>] :
          a \in 1..2, r \in BOOLEAN, n \in 1..MaxOut }

ShapesConditions ==
    { [arity |-> a, returns_seq |-> r, out_len |-> Len(c),
       has_conditions |-> TRUE, conditions |-> c] :
          a \in 1..2, r \in BOOLEAN, c \in CondLists }

\* a scalar is one number
Shapes ==
    { sh \in ShapesNoConditions \cup ShapesConditions :
         ~sh.returns_seq => sh.out_len = 1 }

\* faulty variant: None becomes 0
InitEarlyStop_zero(early_stop, num_generations) ==
    IF early_stop # None THEN early_stop ELSE 0

\* self.early_stop = early_stop if early_stop is not None else num_generations
InitEarlyStop(early_stop, num_generations) ==
    IF early_stop # None THEN early_stop ELSE num_generations

\* VEGA.__init__: the attributes optimize reads
VegaInitAttrs(num_generations, num_individ, early_stop, shape, constant) ==
    [num_generations |-> num_generations,
     num_individ     |-> num_individ,
     early_stop      |-> InitEarlyStop(early_stop, num_generations),
     early_stop_arg  |-> early_stop,
     shape           |-> shape,
     constant        |-> constant]

\* the probe call self.obj_function([0]*len(self.gens)) passes one positional
\* argument: a two-argument function raises TypeError
ProbeCallRaises(shape) == shape.arity = 2

\* len(...) of the probe's result: a scalar has no len() and raises TypeError
ProbeLenRaises(shape) == ~shape.returns_seq

\* lines 72-73
NumObjectivesRaises(shape) ==
    IF ~shape.has_conditions
    THEN ProbeCallRaises(shape) \/ ProbeLenRaises(shape)
    ELSE FALSE

NumObjectives(shape) ==
    IF ~shape.has_conditions
    THEN shape.out_len
    ELSE Count(shape.conditions, "optimize")

\* MultiGaData(num_generations, children_percent, early_stop)
NewGaData(num_generations, early_stop) ==
    [num_generations |-> num_generations,
     early_stop |-> early_stop,
     num_generation |-> 0,
     num_generation_no_improve |-> 0,
     best |-> None]

NoGaData == NewGaData(0, 0)

\* GaData.update(): (b) compare with the historical best
Improved(g, best_now) == g.best = None \/ best_now > g.best

\* GaData.update(): (b), (c), (e)
GaDataUpdate(g, best_now) ==
    [g EXCEPT !.best = IF Improved(g, best_now) THEN best_now ELSE @,
              !.num_generation_no_improve =
                    IF Improved(g, best_now) THEN 0 ELSE @ + 1,
              !.num_generation = @ + 1]

\* GaData.update(): (d) truncate to num_individ if oversized
Truncate(size, num_individ) == IF size > num_individ THEN num_individ ELSE size

NoPopulation == [num_individ |-> None, size |-> 0]

\* population.set_params(num_individ, gens, input_population)
SetParamsResult(p, num_individ) == [p EXCEPT !.num_individ = num_individ]

\* population.fill(): num_individ individuals
FillResult(p) == [p EXCEPT !.size = p.num_individ]

NoPools == [parents |-> 0, children |-> 0]

\* the scores a fitness pass can leave as the population's best
FitnessBest(c) == IF c.constant THEN {0} ELSE 0..MaxScore

(***************************************************************************)
(* Statements of optimize, in program order.                               *)
(***************************************************************************)
Prologue ==
    <<"num_objectives", "new_ga_data", "new_population", "set_params",
      "new_operators", "fill", "assign_population", "fitness0", "update0",
      "for">>

Body ==
    <<"selection", "cross", "mutation", "new_generation", "fitness", "update",
      "if_break">>

IndexOf(s, x) == CHOOSE j \in 1..Len(s) : s[j] = x

InSeq(s, x) == \E j \in 1..Len(s) : s[j] = x

\* the successor of p in the given prologue and loop body
SuccIn(prologue, body, p) ==
    IF InSeq(prologue, p)
    THEN prologue[IndexOf(prologue, p) + 1]
    ELSE body[IndexOf(body, p) + 1]

\* faulty variant: mutation runs before crossover
Succ_mutation_first(p) ==
    SuccIn(Prologue,
           <<"selection", "mutation", "cross", "new_generation", "fitness",
             "update", "if_break">>, p)

\* faulty variant: the population is filled only after the first fitness pass
Succ_fill_late(p) ==
    SuccIn(<<"num_objectives", "new_ga_data", "new_population", "set_params",
             "new_operators", "assign_population", "fitness0", "fill",
             "update0", "for">>, Body, p)

\* faulty variant: population.fill() is never called
Succ_no_fill(p) ==
    SuccIn(<<"num_objectives", "new_ga_data", "new_population", "set_params",
             "new_operators", "assign_population", "fitness0", "update0",
             "for">>, Body, p)

\* the statement that follows statement p in straight-line order
Succ(p) == SuccIn(Prologue, Body, p)

\* faulty variant: the comparison is not strict
BreakTaken_ge(g) == g.num_generation_no_improve >= g.early_stop

\* if ga_data.num_generation_no_improve > ga_data.early_stop: break
BreakTaken(g) == g.num_generation_no_improve > g.early_stop

\* faulty variant: the range runs up to num_generations included
ForContinues_le(i, num_generations) == i <= num_generations

\* range(1, num_generations) yields its next value i
ForContinues(i, num_generations) == i < num_generations

NoFailure == [at |-> "none", cause |-> "none", init_len |-> 0, step_len |-> 0]

\* the record of a statement p raising for the given cause
Failure(p, cause) ==
    [at |-> p, cause |-> cause, init_len |-> Len(init_log),
     step_len |-> Len(step_log)]

\* faulty variant: the failing statement is run again
OnRaise_retry(p) == p

\* faulty variant: the exception is caught and the run goes on
OnRaise_swallow(p) == Succ(p)

\* optimize has no try/except: an exception raised in statement p ends the call
OnRaise(p) == "raised"

\* statement pc raises
Raise(cause) ==
    /\ pc' = OnRaise(pc)
    /\ failed' = Failure(pc, cause)

\* the statements that call a stage (or the objective function) that may raise
RaisingStmts ==
    {"set_params", "fill", "fitness0", "update0", "selection", "cross",
     "mutation", "new_generation", "fitness", "update"}

Init ==
    /\ \E ng \in 0..MaxGen, ni \in 0..MaxIndivid,
          es \in {None} \cup 0..MaxStop, sh \in Shapes, c \in BOOLEAN :
            cfg = VegaInitAttrs(ng, ni, es, sh, c)
    /\ pc = "num_objectives"
    /\ num_objectives = 0
    /\ ga_data = NoGaData
    /\ ga_population = "None"
    /\ population = NoPopulation
    /\ pools = NoPools
    /\ cur_best = None
    /\ it = 1
    /\ init_log = <<>>
    /\ step_log = <<>>
    /\ failed = NoFailure
    /\ PopFresh

\* lines 72-73: num_objectives = ...
NumObjectivesStmt ==
    /\ pc = "num_objectives"
    /\ IF NumObjectivesRaises(cfg.shape)
       THEN Raise("probe") /\ UNCHANGED num_objectives
       ELSE pc' = Succ(pc) /\ UNCHANGED failed /\ num_objectives' = NumObjectives(cfg.shape)
    /\ UNCHANGED <<cfg, ga_data, ga_population, population, pools, cur_best,
                   it, init_log, step_log, popvars>>

\* lines 74-75: ga_data = MultiGaData(...)
NewGaDataStmt ==
    /\ pc = "new_ga_data"
    /\ ga_data' = NewGaData(cfg.num_generations, cfg.early_stop)
    /\ pc' = Succ(pc)
    /\ UNCHANGED <<failed, cfg, num_objectives, ga_population, population, pools,
                   cur_best, it, init_log, step_log, popvars>>

\* lines 76-79: population = BinaryGrayPopulation() / BinaryPopulation()
NewPopulationStmt ==
    /\ pc = "new_population"
    /\ population' = NoPopulation
    /\ pc' = Succ(pc)
    /\ UNCHANGED <<failed, cfg, num_objectives, ga_data, ga_population, pools,
                   cur_best, it, init_log, step_log, popvars>>

\* line 81: population.set_params(...)
SetParamsStmt ==
    /\ pc = "set_params"
    /\ population' = SetParamsResult(population, cfg.num_individ)
    /\ init_log' = Append(init_log, <<"set_params", "population">>)
    /\ pc' = Succ(pc)
    /\ UNCHANGED <<failed, cfg, num_objectives, ga_data, ga_population, pools,
                   cur_best, it, step_log, popvars>>

\* lines 83-89: the fitness, selection, crossover, mutation and
\* new-generation objects are built
NewOperatorsStmt ==
    /\ pc = "new_operators"
    /\ pc' = Succ(pc)
    /\ UNCHANGED <<failed, cfg, num_objectives, ga_data, ga_population, population,
                   pools, cur_best, it, init_log, step_log, popvars>>

\* line 91: population.fill()
FillStmt ==
    /\ pc = "fill"
    /\ IF population.num_individ = None
       THEN Raise("unset") /\ UNCHANGED <<population, init_log>>
       ELSE /\ population' = FillResult(population)
            /\ init_log' = Append(init_log, <<"fill", "population">>)
            /\ pc' = Succ(pc) /\ UNCHANGED failed
    /\ UNCHANGED <<cfg, num_objectives, ga_data, ga_population, pools,
                   cur_best, it, step_log, popvars>>

\* line 92: ga_data.population = population
AssignPopulationStmt ==
    /\ pc = "assign_population"
    /\ ga_population' = "population"
    /\ pc' = Succ(pc)
    /\ UNCHANGED <<failed, cfg, num_objectives, ga_data, population, pools, cur_best,
                   it, init_log, step_log, popvars>>

\* fitness_func.execute(ga_data): scores every individual of
\* ga_data.population
FitnessExecute(log, stage) ==
    IF ga_population = "None"
    THEN Raise("no_population") /\ UNCHANGED <<cur_best, log>>
    ELSE /\ \E b \in FitnessBest(cfg) : cur_best' = b
         /\ log' = Append(log, <<stage, ga_population>>)
         /\ pc' = Succ(pc) /\ UNCHANGED failed

\* ga_data.update(): raises on an empty population
UpdateExecute(log, stage) ==
    IF ga_population = "None" \/ population.size = 0
    THEN Raise("empty") /\ UNCHANGED <<ga_data, population, log>>
    ELSE /\ ga_data' = GaDataUpdate(ga_data, cur_best)
         /\ population' =
               [population EXCEPT !.size = Truncate(@, cfg.num_individ)]
         /\ log' = Append(log, <<stage, ga_population>>)
         /\ pc' = Succ(pc) /\ UNCHANGED failed

\* line 93: fitness_func.execute(ga_data=ga_data)
Fitness0Stmt ==
    /\ pc = "fitness0"
    /\ FitnessExecute(init_log, "fitness")
    /\ UNCHANGED <<cfg, num_objectives, ga_data, ga_population, population,
                   pools, it, step_log, popvars>>

\* line 94: ga_data.update()
Update0Stmt ==
    /\ pc = "update0"
    /\ UpdateExecute(init_log, "update")
    /\ UNCHANGED <<cfg, num_objectives, ga_population, pools, cur_best, it,
                   step_log, popvars>>

\* line 96: for i in range(1, ga_data.num_generations)
ForStmt ==
    /\ pc = "for"
    /\ IF ForContinues(it, ga_data.num_generations)
       THEN /\ it' = it + 1
            /\ step_log' = <<>>
            /\ pc' = Body[1]
       ELSE /\ pc' = "return"
            /\ UNCHANGED <<it, step_log>>
    /\ UNCHANGED <<failed, cfg, num_objectives, ga_data, ga_population, population,
                   pools, cur_best, init_log, popvars>>

\* line 97: selection.execute(ga_data): a parent pool of num_individ
SelectionStmt ==
    /\ pc = "selection"
    /\ pools' = [pools EXCEPT !.parents = cfg.num_individ]
    /\ step_log' = Append(step_log, <<"selection", ga_population>>)
    /\ pc' = Succ(pc)
    /\ UNCHANGED <<failed, cfg, num_objectives, ga_data, ga_population, population,
                   cur_best, it, init_log, popvars>>

\* line 98: cross.execute(ga_data): children from the parent pool
CrossStmt ==
    /\ pc = "cross"
    /\ pools' = [pools EXCEPT !.children = pools.parents]
    /\ step_log' = Append(step_log, <<"cross", ga_population>>)
    /\ pc' = Succ(pc)
    /\ UNCHANGED <<failed, cfg, num_objectives, ga_data, ga_population, population,
                   cur_best, it, init_log, popvars>>

\* line 99: mutation.execute(ga_data): flips bits, no size changes
MutationStmt ==
    /\ pc = "mutation"
    /\ step_log' = Append(step_log, <<"mutation", ga_population>>)
    /\ pc' = Succ(pc)
    /\ UNCHANGED <<failed, cfg, num_objectives, ga_data, ga_population, population,
                   pools, cur_best, it, init_log, popvars>>

\* line 100: new_generation.execute(ga_data): parents and children merged
\* into the population; it is cut to num_individ by the truncation
NewGenerationStmt ==
    /\ pc = "new_generation"
    /\ IF pools.parents + pools.children < cfg.num_individ
       THEN Raise("small_pool") /\ UNCHANGED <<population, pools, step_log>>
       ELSE /\ population' =
                  [population EXCEPT !.size =
                       Truncate(pools.parents + pools.children, cfg.num_individ)]
            /\ pools' = NoPools
            /\ step_log' = Append(step_log, <<"new_generation", ga_population>>)
            /\ pc' = Succ(pc) /\ UNCHANGED failed
    /\ UNCHANGED <<cfg, num_objectives, ga_data, ga_population, cur_best, it,
                   init_log, popvars>>

\* line 101: fitness_func.execute(ga_data)
FitnessStmt ==
    /\ pc = "fitness"
    /\ FitnessExecute(step_log, "fitness")
    /\ UNCHANGED <<cfg, num_objectives, ga_data, ga_population, population,
                   pools, it, init_log, popvars>>

\* line 102: ga_data.update()
UpdateStmt ==
    /\ pc = "update"
    /\ UpdateExecute(step_log, "update")
    /\ UNCHANGED <<cfg, num_objectives, ga_population, pools, cur_best, it,
                   init_log, popvars>>

\* lines 104-105: if ...: break
IfBreakStmt ==
    /\ pc = "if_break"
    /\ pc' = IF BreakTaken(ga_data) THEN "return" ELSE "for"
    /\ UNCHANGED <<failed, cfg, num_objectives, ga_data, ga_population, population,
                   pools, cur_best, it, init_log, step_log, popvars>>

\* lines 107-109: print the best solution if asked, return ga_data
ReturnStmt ==
    /\ pc = "return"
    /\ pc' = "returned"
    /\ UNCHANGED <<failed, cfg, num_objectives, ga_data, ga_population, population,
                   pools, cur_best, it, init_log, step_log, popvars>>

\* a stage raises: the objective function or the penalty fails, or the stage
\* meets an error of its own; the probe call is made only without conditions
StageRaises ==
    /\ \/ pc \in RaisingStmts
       \/ pc = "num_objectives" /\ ~cfg.shape.has_conditions
    /\ Raise("stage")
    /\ UNCHANGED <<cfg, num_objectives, ga_data, ga_population, population,
                   pools, cur_best, it, init_log, step_log, popvars>>

Next ==
    \/ StageRaises
    \/ NumObjectivesStmt
    \/ NewGaDataStmt
    \/ NewPopulationStmt
    \/ SetParamsStmt
    \/ NewOperatorsStmt
    \/ FillStmt
    \/ AssignPopulationStmt
    \/ Fitness0Stmt
    \/ Update0Stmt
    \/ ForStmt
    \/ SelectionStmt
    \/ CrossStmt
    \/ MutationStmt
    \/ NewGenerationStmt
    \/ FitnessStmt
    \/ UpdateStmt
    \/ IfBreakStmt
    \/ ReturnStmt

Spec == Init /\ [][Next]_vars

\* optimize is synchronous and single-threaded: while a statement can run it
\* does run (every stage call is taken to come back, by returning or raising)
FairSpec == Spec /\ WF_vars(Next)

\* the driver variables while only a population is exercised
VegaIdle ==
    /\ cfg = VegaInitAttrs(0, 0, None, CHOOSE sh \in Shapes : TRUE, TRUE)
    /\ pc = "idle"
    /\ num_objectives = 0
    /\ ga_data = NoGaData
    /\ ga_population = "None"
    /\ population = NoPopulation
    /\ pools = NoPools
    /\ cur_best = None
    /\ it = 1
    /\ init_log = <<>>
    /\ step_log = <<>>
    /\ failed = NoFailure

(***************************************************************************)
(*       BasePopulation (baumeva/ga/populations/base_population.py)        *)
(***************************************************************************)
(***************************************************************************)
(* Individuals are dicts: functions from field names to integers.          *)
(* add_dict(data) accepts any keyword set, so an individual may lack a   *)
(* field.                                                                  *)
(***************************************************************************)
Fields == {"idx_individ", "score"}

Values == 0..MaxVal

\* the keyword dictionaries add_dict is called with
Dicts == UNION { [D -> Values] : D \in (SUBSET Fields) \ {{}} }

\* keys sort_by_dict is called with
SortKeys == Fields

(***************************************************************************)
(* BasePopulation.is_sorted: a class attribute, shadowed by the instance   *)
(* attribute once sort_by_dict has assigned self.is_sorted.                *)
(***************************************************************************)
cls_is_sorted == FALSE

\* instance 0 is the population whose list is followed
Instances == 0..NumOthers

\* the instance attribute is_sorted of instance i
AttrOf(i) == IF i = 0 THEN inst_is_sorted ELSE others[i]

Exists(i) == AttrOf(i) # "none"

\* faulty variant: the flag lives on the class, one value for all instances
IsSortedOf_shared(i) == \E j \in Instances : AttrOf(j) = "True"

\* attribute lookup: the instance attribute if there is one, else the class's
IsSortedOf(i) ==
    IF AttrOf(i) = "absent" THEN cls_is_sorted ELSE AttrOf(i) = "True"

is_sorted == IsSortedOf(0)

(***************************************************************************)
(* list.sort(key=..., reverse=...): a stable sort.  The forward sort is    *)
(* modelled as a left-to-right insertion that places an element after      *)
(* every element whose key is not greater; reverse=True reverses the list, *)
(* sorts forward and reverses the result, as CPython does.                 *)
(***************************************************************************)
Reverse(s) == [i \in 1..Len(s) |-> s[Len(s) + 1 - i]]

\* position of x in the sorted sequence s: after the last element with key <= x[k]
InsertPos(s, x, k) ==
    Cardinality({ j \in 1..Len(s) : s[j][k] <= x[k] })

Insert(s, x, k) ==
    LET p == InsertPos(s, x, k)
    IN  SubSeq(s, 1, p) \o <<x>> \o SubSeq(s, p + 1, Len(s))

RECURSIVE SortForward(_, _)
SortForward(s, k) ==
    IF s = <<>> THEN <<>>
    ELSE Insert(SortForward(SubSeq(s, 1, Len(s) - 1), k), s[Len(s)], k)

\* faulty variant: the reverse flag read the wrong way round
ListSort_inverted(s, k, reverse) ==
    IF reverse THEN SortForward(s, k) ELSE Reverse(SortForward(Reverse(s), k))

\* faulty variant: reverse=True done by reversing the forward-sorted list only
ListSort_unstable(s, k, reverse) ==
    IF reverse THEN Reverse(SortForward(s, k)) ELSE SortForward(s, k)

ListSort(s, k, reverse) ==
    IF reverse THEN Reverse(SortForward(Reverse(s), k)) ELSE SortForward(s, k)

\* the key lambda d: d[key_dict] raises KeyError on an individual without the key
KeyError(s, k) == \E j \in 1..Len(s) : k \notin DOMAIN s[j]

\* faulty variant: the flag is set whatever the key
SortedFlagAfter_always(key_dict, cur) == "True"

\* if key_dict == 'score': self.is_sorted = True
SortedFlagAfter(key_dict, cur) ==
    IF key_dict = "score" THEN "True" ELSE cur

PopInit ==
    /\ PopFresh
    /\ VegaIdle

\* sort_by_dict(key_dict, reverse)
sort_by_dict(key_dict, reverse) ==
    /\ before' = pop
    /\ before_sorted' = is_sorted
    /\ IF KeyError(pop, key_dict)
       THEN /\ last_call' = Call("sort_by_dict", key_dict, reverse, TRUE, TRUE, {})
            /\ UNCHANGED <<pop, inst_is_sorted, score_sorted>>
       ELSE /\ last_call' = Call("sort_by_dict", key_dict, reverse, FALSE, TRUE, {})
            /\ pop' = ListSort(pop, key_dict, reverse)
            /\ inst_is_sorted' = SortedFlagAfter(key_dict, inst_is_sorted)
            /\ score_sorted' =
                   IF key_dict = "score" THEN score_sorted \cup {0}
                   ELSE score_sorted
    /\ arg' = NoDict
    /\ ret' = NoDict
    /\ UNCHANGED others
    /\ UNCHANGED vegavars

\* faulty variant: the individual is put in front of the list
ListAppend_front(s, data) == <<data>> \o s

\* self.append(data)
ListAppend(s, data) == Append(s, data)

\* add_dict(data)
add_dict(data) ==
    /\ Len(pop) < MaxLen
    /\ before' = pop
    /\ before_sorted' = is_sorted
    /\ pop' = ListAppend(pop, data)
    /\ last_call' = Call("add_dict", "-", FALSE, FALSE, TRUE, {})
    /\ arg' = data
    /\ ret' = NoDict
    /\ UNCHANGED <<others, score_sorted>>
    /\ UNCHANGED inst_is_sorted
    /\ UNCHANGED vegavars

\* faulty variant: the counter is advanced before it is stored
ResetIndivid_offbyone(s, i) ==
    [f \in (DOMAIN s[i]) \cup {"idx_individ"} |->
        IF f = "idx_individ" THEN i ELSE s[i][f]]

\* the individual at list position i (1-based) after the loop of reset_idx_individ
ResetIndivid(s, i) ==
    [f \in (DOMAIN s[i]) \cup {"idx_individ"} |->
        IF f = "idx_individ" THEN i - 1 ELSE s[i][f]]

\* reset_idx_individ()
reset_idx_individ ==
    /\ before' = pop
    /\ before_sorted' = is_sorted
    /\ pop' = [i \in 1..Len(pop) |-> ResetIndivid(pop, i)]
    /\ last_call' = Call("reset_idx_individ", "-", FALSE, FALSE, TRUE, {})
    /\ arg' = NoDict
    /\ ret' = NoDict
    /\ UNCHANGED <<others, score_sorted>>
    /\ UNCHANGED inst_is_sorted
    /\ UNCHANGED vegavars

\* faulty variant: the keys are taken from the last individual
EmptyIndivid_last(s) == [f \in DOMAIN s[Len(s)] |-> None]

\* dict.fromkeys(self[0].keys()): every key of the first individual, value None
EmptyIndivid(s) == [f \in DOMAIN s[1] |-> None]

\* get_empty_individ(): None, or dict.fromkeys(self[0].keys())
get_empty_individ ==
    /\ before' = pop
    /\ before_sorted' = is_sorted
    /\ arg' = NoDict
    /\ ret' = IF Len(pop) > 0 THEN EmptyIndivid(pop) ELSE NoDict
    /\ UNCHANGED <<others, score_sorted>>
    /\ last_call' =
           IF Len(pop) > 0
           THEN Call("get_empty_individ", "-", FALSE, FALSE, FALSE, DOMAIN pop[1])
           ELSE Call("get_empty_individ", "-", FALSE, FALSE, TRUE, {})
    /\ UNCHANGED <<pop, inst_is_sorted>>
    /\ UNCHANGED vegavars

\* another population instance is constructed (a subclass's get_empty_copy(),
\* or the class called directly): an empty list, no instance attribute
new_population(i) ==
    /\ others[i] = "none"
    /\ others' = [others EXCEPT ![i] = "absent"]
    /\ UNCHANGED <<pop, inst_is_sorted, last_call, before, before_sorted, arg,
                   ret, score_sorted>>
    /\ UNCHANGED vegavars

\* sort_by_dict(key_dict, reverse) on another instance, whose list is empty
sort_other(i, key_dict, reverse) ==
    /\ others[i] # "none"
    /\ others' = [others EXCEPT ![i] = SortedFlagAfter(key_dict, @)]
    /\ score_sorted' =
           IF key_dict = "score" THEN score_sorted \cup {i} ELSE score_sorted
    /\ UNCHANGED <<pop, inst_is_sorted, last_call, before, before_sorted, arg,
                   ret>>
    /\ UNCHANGED vegavars

PopNext ==
    \/ \E k \in SortKeys, r \in BOOLEAN : sort_by_dict(k, r)
    \/ \E d \in Dicts : add_dict(d)
    \/ reset_idx_individ
    \/ get_empty_individ

SpecPop == PopInit /\ [][PopNext]_vars

\* several population instances: the followed one is filled and sorted, the
\* others are constructed and sorted at any time
InstNext ==
    \/ \E i \in 1..NumOthers : new_population(i)
    \/ \E i \in 1..NumOthers, k \in SortKeys, r \in BOOLEAN : sort_other(i, k, r)
    \/ \E k \in SortKeys, r \in BOOLEAN : sort_by_dict(k, r)
    \/ \E d \in Dicts : Len(pop) < MaxHeld /\ add_dict(d)

SpecInst == PopInit /\ [][InstNext]_vars

PopTypeOK ==
    /\ Len(pop) <= MaxLen
    /\ inst_is_sorted \in {"absent", "True"}

(***************************************************************************)
(* Properties of VEGA.optimize (checked under Spec).                       *)
(***************************************************************************)
\* the names of the stages recorded in a log
StageNames(log) == [j \in 1..Len(log) |-> log[j][1]]

\* the targets the stages of a log ran on
StageTargets(log) == {log[j][2] : j \in 1..Len(log)}

BodyStages ==
    <<"selection", "cross", "mutation", "new_generation", "fitness", "update">>

InitStages == <<"set_params", "fill", "fitness", "update">>

\* statements reached only after the prologue has finished
AfterInit == {Body[j] : j \in 1..Len(Body)} \cup {"for", "return", "returned"}

\* number of loop iterations started so far
StepsStarted == it - 1

\* C1: with early_stop = 3 and an objective whose best score never improves,
\* no EVOLVING step is started once 3 generations in a row have brought no
\* improvement, whatever num_generations is.
C1_EarlyStopWithin3 ==
    (cfg.early_stop_arg = 3 /\ cfg.constant /\ pc = "selection")
        => ga_data.num_generation_no_improve < 3

\* the stop condition of the driver loop as the specification words it
StopCond(g) ==
    \/ g.num_generation_no_improve > g.early_stop
    \/ g.num_generation = g.num_generations

\* C2 (as claimed): a new EVOLVING step starts only while the stop condition
\* is false, and whenever optimize returns the stop condition holds in the
\* returned GaData, for every num_generations >= 0 and early_stop >= 0.
C2_StopCondition_Original ==
    /\ pc = "selection" => ~StopCond(ga_data)
    /\ pc \in {"return", "returned"} => StopCond(ga_data)

\* C2 (amended): the same, for every num_generations >= 1.
C2_StopCondition ==
    cfg.num_generations >= 1 => C2_StopCondition_Original

C2_Witness ==
    /\ pc = "returned"
    /\ cfg.num_generations >= 1
    /\ ga_data.num_generation_no_improve > ga_data.early_stop
    /\ ga_data.num_generation < ga_data.num_generations

\* C3: in every EVOLVING step the stages run once each in the order
\* Selection, Crossover, Mutation, NewGeneration, Fitness, GaData.update();
\* a step starts with none of its stages run, the break test and the start
\* of the next step come only after the step's GaData.update().
C3_StageOrder ==
    /\ InSeq(Body, pc) =>
          StageNames(step_log) = SubSeq(BodyStages, 1, IndexOf(Body, pc) - 1)
    /\ (pc \in {"for", "return", "returned"} /\ StepsStarted >= 1) =>
          StageNames(step_log) = BodyStages

C3_Witness ==
    /\ pc = "if_break"
    /\ StepsStarted = 2
    /\ StageNames(step_log) = BodyStages

\* C4: once the prologue is over (before the first Selection, and also when
\* no EVOLVING step runs at all) set_params, fill, one fitness pass and one
\* GaData.update() have run exactly once each, in that order, all on the
\* population object that GaData holds.
C4_InitPhase ==
    pc \in AfterInit =>
        /\ StageNames(init_log) = InitStages
        /\ StageTargets(init_log) = {ga_population}
        /\ ga_population = "population"

C4_Witness ==
    /\ pc = "selection"
    /\ StepsStarted = 1
    /\ StageNames(init_log) = InitStages

\* C5: the population GaData holds has exactly num_individ individuals
\* after fill and after every GaData.update(), i.e. everywhere after fill
\* except between Crossover and the truncation of the merged pool.
C5_PopulationSize ==
    pc \in (AfterInit \cup {"assign_population", "fitness0", "update0"})
               \ {"mutation", "new_generation"}
        => population.size = cfg.num_individ

C5_Witness ==
    /\ pc = "if_break"
    /\ StepsStarted = 2
    /\ ga_population = "population"
    /\ population.size = MaxIndivid

\* the number of objectives the interface promises
PromisedObjectives(shape) ==
    IF shape.has_conditions
    THEN Cardinality({j \in 1..Len(shape.conditions) :
                          shape.conditions[j] = "optimize"})
    ELSE shape.out_len

\* C6: for every documented shape of objective function optimize derives
\* num_objectives and reaches the first fitness pass without raising.
C6_ObjectiveContract ==
    /\ failed.cause # "probe"
    /\ InSeq(StageNames(init_log), "fitness")
           => num_objectives = PromisedObjectives(cfg.shape)

\* C13: once a stage (probe call, fill, fitness, selection, crossover,
\* mutation, new generation, update) has raised, the failing stage is not run
\* again, no later stage runs, and optimize ends with the error: it never
\* returns a GaData; and optimize ends with an error only if a stage raised.
C13_FailurePropagates ==
    /\ failed.at # "none" =>
          /\ pc = "raised"
          /\ Len(init_log) = failed.init_len
          /\ Len(step_log) = failed.step_len
    /\ pc = "raised" => failed.at # "none"
    /\ pc \in {"return", "returned"} => failed.at = "none"

C13_Witness ==
    /\ pc = "raised"
    /\ failed.at = "fitness"
    /\ failed.cause = "stage"
    /\ StepsStarted = 2
    /\ StageNames(step_log) = SubSeq(BodyStages, 1, 4)

Maximum(a, b) == IF a >= b THEN a ELSE b

\* GaData.update() calls completed so far: in the prologue, in the loop
\* iterations already over and in the current one
UpdateCalls ==
    Count(StageNames(init_log), "update")
    + (IF StepsStarted = 0 THEN 0
       ELSE (StepsStarted - 1) + Count(StageNames(step_log), "update"))

C14_Bound ==
    /\ Count(StageNames(init_log), "fitness") <= 1
    /\ Count(StageNames(init_log), "update") <= 1
    /\ StepsStarted <= Maximum(0, cfg.num_generations - 1)
    /\ UpdateCalls <= Maximum(1, cfg.num_generations)
    /\ (pc = "returned" /\ ~BreakTaken(ga_data))
           => UpdateCalls = Maximum(1, cfg.num_generations)

\* C14: optimize always comes to an end, returning unless a stage raised; it
\* runs the initial fitness pass and update once and then at most
\* num_generations - 1 EVOLVING steps (none when num_generations <= 1), so
\* GaData.update() is called at most max(1, num_generations) times, and
\* exactly that many times when optimize returns without the early-stop
\* break having fired.
C14_TerminationBound ==
    /\ []C14_Bound
    /\ <>(pc \in {"returned", "raised"})

C14_Witness ==
    /\ pc = "returned"
    /\ ~BreakTaken(ga_data)
    /\ cfg.num_generations = MaxGen
    /\ UpdateCalls = MaxGen
    /\ StepsStarted = MaxGen - 1

\* C16: with early_stop given as None the threshold is num_generations and
\* early stopping is off: num_generation_no_improve never exceeds early_stop,
\* the break is never taken, and when optimize returns it has run all
\* num_generations - 1 EVOLVING steps (none when num_generations <= 1) in
\* full, whatever scores the fitness passes produced.
C16_NoneDisablesEarlyStop ==
    cfg.early_stop_arg = None =>
        /\ cfg.early_stop = cfg.num_generations
        /\ pc \in AfterInit => ga_data.early_stop = cfg.num_generations
        /\ ga_data.num_generation_no_improve <= cfg.early_stop
        /\ ~BreakTaken(ga_data)
        /\ pc \in {"return", "returned"} =>
              /\ StepsStarted = Maximum(0, cfg.num_generations - 1)
              /\ StepsStarted >= 1 => StageNames(step_log) = BodyStages

C16_Witness ==
    /\ cfg.early_stop_arg = None
    /\ cfg.num_generations = MaxGen
    /\ pc = "returned"
    /\ StepsStarted = MaxGen - 1
    /\ ga_data.num_generation_no_improve = MaxGen - 1

(***************************************************************************)
(* Properties of BasePopulation (checked under SpecPop; C15 under SpecInst)*)
(***************************************************************************)
Returned(op) == last_call.op = op /\ ~last_call.raised

NonDecreasing(s, k) ==
    \A i, j \in 1..Len(s) : i < j => s[i][k] <= s[j][k]

\* the multiset of the elements of a sequence
BagOf(s) ==
    [x \in {s[i] : i \in 1..Len(s)} |-> Cardinality({i \in 1..Len(s) : s[i] = x})]

\* the elements of s whose field k has value v, in order
WithKey(s, k, v) ==
    LET T(x) == x[k] = v IN SelectSeq(s, T)

\* C7: after a completed sort_by_dict('score', reverse=False) the scores are
\* non-decreasing in list order and the list is a permutation of the list
\* the call was entered with.
C7_SortAscending ==
    (Returned("sort_by_dict") /\ last_call.key = "score" /\ ~last_call.reverse)
        => /\ NonDecreasing(pop, "score")
           /\ BagOf(pop) = BagOf(before)
           /\ Len(pop) = Len(before)

C7_Witness ==
    /\ Returned("sort_by_dict") /\ last_call.key = "score" /\ ~last_call.reverse
    /\ Len(pop) = MaxLen
    /\ pop # before
    /\ \E i, j \in 1..Len(pop) : pop[i].score # pop[j].score

\* C8: a completed sort_by_dict with key 'score' leaves is_sorted True, for
\* either value of reverse; sort_by_dict with another key, add_dict,
\* reset_idx_individ and get_empty_individ leave is_sorted as it was.
C8_IsSortedFrame ==
    /\ (Returned("sort_by_dict") /\ last_call.key = "score") => is_sorted
    /\ (last_call.op = "sort_by_dict" /\ last_call.key # "score")
           => is_sorted = before_sorted
    /\ last_call.op \in {"add_dict", "reset_idx_individ", "get_empty_individ"}
           => is_sorted = before_sorted

C8_Witness ==
    /\ Returned("sort_by_dict") /\ last_call.key = "score" /\ last_call.reverse
    /\ ~before_sorted /\ is_sorted
    /\ pop # before

\* C9: a completed sort_by_dict, for every key and both values of reverse,
\* keeps the individuals with equal sort keys in the relative order they had
\* when the call was entered.
C9_SortStable ==
    Returned("sort_by_dict") =>
        \A i \in 1..Len(before) :
            LET v == before[i][last_call.key]
            IN  WithKey(pop, last_call.key, v) = WithKey(before, last_call.key, v)

C9_Witness ==
    /\ Returned("sort_by_dict") /\ last_call.reverse
    /\ pop # before
    /\ \E i, j \in 1..Len(pop) :
          /\ i < j
          /\ pop[i][last_call.key] = pop[j][last_call.key]
          /\ pop[i] # pop[j]

\* C10: after reset_idx_individ() the individual at position i (0-based) has
\* idx_individ = i; the length, the order and every other field of every
\* individual are as they were.
C10_ResetIdx ==
    last_call.op = "reset_idx_individ" =>
        /\ Len(pop) = Len(before)
        /\ \A i \in 1..Len(pop) :
              /\ pop[i].idx_individ = i - 1
              /\ DOMAIN pop[i] = (DOMAIN before[i]) \cup {"idx_individ"}
              /\ \A f \in (DOMAIN before[i]) \ {"idx_individ"} :
                    pop[i][f] = before[i][f]

C10_Witness ==
    /\ last_call.op = "reset_idx_individ"
    /\ Len(pop) = MaxLen
    /\ \E i \in 1..Len(before) :
          "idx_individ" \in DOMAIN before[i] /\ before[i].idx_individ # i - 1
    /\ \E i \in 1..Len(before) : "idx_individ" \notin DOMAIN before[i]

\* C11 (as claimed): get_empty_individ() returns None on an empty population;
\* otherwise it returns a new record with None in every field whose field
\* names are those of the existing individuals, of each of them; the
\* population is unchanged and the record is not one of its elements.
C11_EmptyIndivid_Original ==
    last_call.op = "get_empty_individ" =>
        /\ last_call.ret_none <=> (Len(before) = 0)
        /\ pop = before
        /\ ~last_call.ret_none =>
              /\ \A i \in 1..Len(pop) : DOMAIN ret = DOMAIN pop[i]
              /\ \A f \in DOMAIN ret : ret[f] = None
              /\ \A i \in 1..Len(pop) : pop[i] # ret

\* C11 (amended): the same, with the field names of the returned record
\* being those of the first individual.
C11_EmptyIndivid ==
    last_call.op = "get_empty_individ" =>
        /\ last_call.ret_none <=> (Len(before) = 0)
        /\ pop = before
        /\ ~last_call.ret_none =>
              /\ DOMAIN ret = DOMAIN pop[1]
              /\ \A f \in DOMAIN ret : ret[f] = None
              /\ \A i \in 1..Len(pop) : pop[i] # ret

C11_Witness ==
    /\ last_call.op = "get_empty_individ"
    /\ ~last_call.ret_none
    /\ Len(pop) = MaxLen
    /\ DOMAIN ret = Fields
    /\ DOMAIN pop[Len(pop)] # Fields

\* C12: add_dict(data) appends exactly one individual: the list is one
\* longer, its last element is data with exactly the given fields, and the
\* individuals held before keep their positions and contents.
C12_AddDict ==
    last_call.op = "add_dict" =>
        /\ Len(pop) = Len(before) + 1
        /\ pop[Len(pop)] = arg
        /\ DOMAIN pop[Len(pop)] = DOMAIN arg
        /\ \A i \in 1..Len(before) : pop[i] = before[i]

C12_Witness ==
    /\ last_call.op = "add_dict"
    /\ Len(pop) = MaxLen
    /\ \A i \in 1..Len(before) : pop[i] # arg

\* C15: is_sorted is not shared between population instances: an instance
\* reports is_sorted = True exactly when a sort_by_dict by 'score' has
\* completed on that very instance; sorting one instance leaves every other
\* instance, also one constructed afterwards, reporting False.
C15_NotShared ==
    \A i \in Instances : Exists(i) => (IsSortedOf(i) <=> i \in score_sorted)

C15_Witness ==
    /\ 0 \in score_sorted
    /\ IsSortedOf(0)
    /\ \E i \in 1..NumOthers : Exists(i) /\ ~IsSortedOf(i)
    /\ Len(pop) = MaxHeld

\* the individuals that have a score, in list order
Scored(s) ==
    LET T(x) == "score" \in DOMAIN x IN SelectSeq(s, T)

NonIncreasing(s, k) ==
    \A i, j \in 1..Len(s) : i < j => s[i][k] >= s[j][k]

\* the scores are in monotone order along the list
MonotoneByScore(s) ==
    NonDecreasing(Scored(s), "score") \/ NonIncreasing(Scored(s), "score")

\* C17: whatever sort_by_dict, add_dict and reset_idx_individ calls have been
\* made, is_sorted = True implies that the individuals are in monotone order
\* of score.
C17_IsSortedSound ==
    is_sorted => MonotoneByScore(pop)
====
